---- MODULE Spec2Model ----
(***************************************************************************)
(* Model of ApiController (SynchronousGrab/Qt/Source/ApiController.cpp):   *)
(* StartUp, ShutDown, GetCameraList, AcquireSingleImage and the accessors. *)
(* The Vimba runtime and the camera are the environment: every SDK call    *)
(* returns a status the environment chooses.  AcquireSingleImage is split  *)
(* at its SDK calls (pc is the position of the caller's thread inside it); *)
(* all other operations are single steps.  The controller is used from one *)
(* thread, so an operation starts only when no other one is in progress.   *)
(*                                                                         *)
(* Assumptions about the closed-source SDK, stated once:                   *)
(*  - a GetValue that fails leaves its out-parameter untouched;            *)
(*  - a SetValue that succeeds makes the device select that format, a      *)
(*    GetValue that succeeds returns what the device currently holds;      *)
(*  - Camera::Close closes the camera (its status is discarded, line 178); *)
(*  - OpenCameraByID succeeds only on a started runtime and a known ID.    *)
(***************************************************************************)
EXTENDS Integers, Sequences, FiniteSets, TLC

\* ------------------------------------------------------------------ bounds
MaxCams == 2
\* The polls of one call are counted up to MaxPolls (the loop itself has no cap).
MaxPolls == 2

\* --------------------------------------------------------------- SDK types
VmbErrorSuccess == "VmbErrorSuccess"
Errs == {"VmbErrorNotFound", "VmbErrorTimeout"}
Statuses == {VmbErrorSuccess} \cup Errs

\* A VmbInt64_t is kept as <<high 32 bits, low 32 bits>>.
I64(hi, lo) == <<hi, lo>>
\* static_cast<int>( VmbInt64_t ) keeps the low 32 bits.
CastInt(v) == v[2]

VmbPixelFormatMono8 == 17301505
VmbPixelFormatRgb8 == 35127316
\* A format that is neither of the two the code writes (BayerRG8).
OtherPixelFormat == VmbPixelFormatMono8 + 8

\* What an uninitialised VmbInt64_t member may hold.
Indeterminate == {I64(0, 0), I64(1, VmbPixelFormatRgb8)}

\* Widths, heights and formats a camera may be configured with at open.
Widths == {I64(0, 640)}
Heights == {I64(0, 480), I64(0, 960)}
DeviceFormats == {I64(0, VmbPixelFormatMono8), I64(0, OtherPixelFormat)}

CameraIds == {"DEV_1", "DEV_2"}
\* IDs a caller may pass; "DEV_X" names no camera.
RequestIds == {"DEV_1", "DEV_X"}

RECURSIVE SeqsUpTo(_)
SeqsUpTo(n) ==
    IF n = 0 THEN {<<>>}
    ELSE LET shorter == SeqsUpTo(n - 1)
         IN  shorter \cup {Append(s, c) : s \in {t \in shorter : Len(t) = n - 1}, c \in CameraIds}
\* Camera lists the runtime can produce: no camera twice.
CameraLists ==
    {s \in SeqsUpTo(MaxCams) : \A i, j \in 1..Len(s) : i # j => s[i] # s[j]}

VARIABLES
    sysStarted,         \* m_system: the runtime is started
    m_pCameraObserver,  \* "indeterminate" until StartUp creates the observer
    m_nWidth, m_nHeight, m_nPixelFormat,  \* cached frame attributes (VmbInt64_t)
    cameraOpen,         \* m_pCamera refers to an opened camera
    devWidth, devHeight, devPixelFormat,  \* the camera's current feature values
    pc,                 \* position inside AcquireSingleImage, "idle" outside
    res,                \* local res of AcquireSingleImage
    bIsCommandDone,     \* local of the polling loop
    ret,                \* the operation that returned last, and its return value
    enum,               \* what GetCameras did, when GetCameraList returned last
    call                \* what the SDK calls did, in the current / last
                        \* AcquireSingleImage when no other operation followed

vars == <<sysStarted, m_pCameraObserver, m_nWidth, m_nHeight,
          m_nPixelFormat, cameraOpen, devWidth, devHeight, devPixelFormat,
          pc, res, bIsCommandDone, ret, enum, call>>

ctrlVars == <<sysStarted, m_pCameraObserver, enum>>
cacheVars == <<m_nWidth, m_nHeight, m_nPixelFormat>>
devVars == <<devWidth, devHeight, devPixelFormat>>

\* --------------------------------------------------------------- accessors
GetWidth == CastInt(m_nWidth)
GetHeight == CastInt(m_nHeight)
GetPixelFormat == CastInt(m_nPixelFormat)

\* ------------------------------------------------- observation of one call
NoCall ==
    [ made |-> FALSE,          \* an AcquireSingleImage call was started
      id |-> "none",
      openSt |-> "none",       \* status of OpenCameraByID
      firstFail |-> VmbErrorSuccess,  \* first non-success status of any SDK call
      afterFail |-> FALSE,     \* a feature call or the capture followed it
      keptFail |-> VmbErrorSuccess,   \* first non-success status stored in res
      afterKept |-> FALSE,     \* a call other than the read-back followed it
      featCalled |-> FALSE, captureCalled |-> FALSE,
      outside |-> FALSE,       \* a feature call or the capture ran on a closed camera
      closeCount |-> 0,
      pollSt |-> "none",       \* status of the last IsCommandDone
      nPolls |-> 0,            \* IsCommandDone calls so far, counted to MaxPolls
      rgbSt |-> "none", monoSt |-> "none",
      wRead |-> FALSE, hRead |-> FALSE, pRead |-> FALSE,
      preW |-> 0, preH |-> 0, preP |-> 0 ]

\* The record after an SDK call of the given kind ("open", "feature",
\* "readBack" or "capture") returned st; kept: the code stores st in res.
Seen(c, st, kind, kept) ==
    [c EXCEPT
        !.firstFail = IF @ = VmbErrorSuccess THEN st ELSE @,
        !.afterFail = @ \/ (c.firstFail # VmbErrorSuccess),
        !.keptFail = IF @ = VmbErrorSuccess /\ kept THEN st ELSE @,
        !.afterKept = @ \/ (c.keptFail # VmbErrorSuccess /\ kind # "readBack"),
        !.featCalled = @ \/ (kind \in {"feature", "readBack"}),
        !.outside = @ \/ (kind # "open" /\ ~cameraOpen),
        !.captureCalled = @ \/ (kind = "capture")]

NoReturn == [op |-> "none", value |-> "none"]
NoEnum == [st |-> "none", cameras |-> <<>>]
Returned(op, value) == [op |-> op, value |-> value]

Init ==
    /\ sysStarted = FALSE
    /\ m_pCameraObserver = "indeterminate"
    /\ m_nWidth \in Indeterminate
    /\ m_nHeight \in Indeterminate
    /\ m_nPixelFormat \in Indeterminate
    /\ cameraOpen = FALSE
    /\ devWidth \in Widths
    /\ devHeight \in Heights
    /\ devPixelFormat \in DeviceFormats
    /\ pc = "idle"
    /\ res = "none"
    /\ bIsCommandDone = FALSE
    /\ ret = NoReturn
    /\ enum = NoEnum
    /\ call = NoCall

\* ------------------------------------------------------------------ StartUp
\* line 75-90
StartUp ==
    /\ pc = "idle"
    /\ \E st \in Statuses :
         IF st = VmbErrorSuccess
         THEN /\ sysStarted' = TRUE
              /\ m_pCameraObserver' = "CameraObserver"
              /\ \E reg \in Statuses : ret' = Returned("StartUp", reg)
         ELSE /\ ret' = Returned("StartUp", st)
              /\ UNCHANGED <<sysStarted, m_pCameraObserver>>
    /\ enum' = NoEnum
    /\ call' = NoCall
    /\ UNCHANGED <<cacheVars, cameraOpen, devVars, pc, res, bIsCommandDone>>

\* line 95-99
ShutDown ==
    /\ pc = "idle"
    /\ sysStarted' = FALSE
    /\ ret' = Returned("ShutDown", "void")
    /\ enum' = NoEnum
    /\ call' = NoCall
    /\ UNCHANGED <<m_pCameraObserver, cacheVars, cameraOpen, devVars,
                   pc, res, bIsCommandDone>>

\* ------------------------------------------------------------ GetCameraList
\* Variant: the vector is returned whatever GetCameras answered.
CameraListResult_Unchecked(st, cameras) == cameras

\* line 195-200: what GetCameraList returns when GetCameras returned st and
\* left `cameras` in the vector
CameraListResult(st, cameras) ==
    IF st = VmbErrorSuccess THEN cameras ELSE <<>>

\* line 191-201
GetCameraList ==
    /\ pc = "idle"
    /\ \E st \in (IF sysStarted THEN Statuses ELSE Errs), cameras \in CameraLists :
         /\ enum' = [st |-> st, cameras |-> cameras]
         /\ ret' = Returned("GetCameraList", CameraListResult(st, cameras))
    /\ call' = NoCall
    /\ UNCHANGED <<sysStarted, m_pCameraObserver, cacheVars, cameraOpen,
                   devVars, pc, res, bIsCommandDone>>

\* ------------------------------------------------------- AcquireSingleImage
\* Where the nested ifs lead after a call whose status was stored in res.
After(st, nextPc) == IF st = VmbErrorSuccess THEN nextPc ELSE "close"

\* Variant: Close sits outside the if, so a failed open goes on to Close.
Acq_Open_CloseAlways(id) ==
    /\ pc = "idle"
    /\ \E st \in (IF sysStarted /\ id \in CameraIds THEN Statuses ELSE Errs) :
         /\ res' = st
         /\ call' = Seen([NoCall EXCEPT !.made = TRUE, !.id = id, !.openSt = st,
                                        !.preW = GetWidth, !.preH = GetHeight,
                                        !.preP = GetPixelFormat],
                         st, "open", TRUE)
         /\ IF st = VmbErrorSuccess
            THEN /\ cameraOpen' = TRUE
                 /\ devWidth' \in Widths
                 /\ devHeight' \in Heights
                 /\ pc' = "packetFeature"
            ELSE /\ pc' = "close"
                 /\ UNCHANGED <<cameraOpen, devWidth, devHeight>>
    /\ ret' = NoReturn
    /\ bIsCommandDone' = FALSE
    /\ enum' = NoEnum
    /\ UNCHANGED <<sysStarted, m_pCameraObserver, cacheVars, devPixelFormat>>

\* Variant: the status of the open is not tested before the feature calls.
Acq_Open_NoCheck(id) ==
    /\ pc = "idle"
    /\ \E st \in (IF sysStarted /\ id \in CameraIds THEN Statuses ELSE Errs) :
         /\ res' = st
         /\ call' = Seen([NoCall EXCEPT !.made = TRUE, !.id = id, !.openSt = st,
                                        !.preW = GetWidth, !.preH = GetHeight,
                                        !.preP = GetPixelFormat],
                         st, "open", TRUE)
         /\ IF st = VmbErrorSuccess
            THEN /\ cameraOpen' = TRUE
                 /\ devWidth' \in Widths
                 /\ devHeight' \in Heights
            ELSE UNCHANGED <<cameraOpen, devWidth, devHeight>>
    /\ pc' = "packetFeature"
    /\ ret' = NoReturn
    /\ bIsCommandDone' = FALSE
    /\ enum' = NoEnum
    /\ UNCHANGED <<sysStarted, m_pCameraObserver, cacheVars, devPixelFormat>>

\* line 118-119: open the camera by its ID
Acq_Open(id) ==
    /\ pc = "idle"
    /\ \E st \in (IF sysStarted /\ id \in CameraIds THEN Statuses ELSE Errs) :
         /\ res' = st
         /\ call' = Seen([NoCall EXCEPT !.made = TRUE, !.id = id, !.openSt = st,
                                        !.preW = GetWidth, !.preH = GetHeight,
                                        !.preP = GetPixelFormat],
                         st, "open", TRUE)
         /\ IF st = VmbErrorSuccess
            THEN /\ cameraOpen' = TRUE
                 /\ devWidth' \in Widths
                 /\ devHeight' \in Heights
                 /\ pc' = "packetFeature"
                 /\ ret' = NoReturn
            ELSE /\ pc' = "idle"
                 /\ ret' = Returned("AcquireSingleImage", st)
                 /\ UNCHANGED <<cameraOpen, devWidth, devHeight>>
    /\ bIsCommandDone' = FALSE
    /\ enum' = NoEnum
    /\ UNCHANGED <<sysStarted, m_pCameraObserver, cacheVars, devPixelFormat>>

\* line 124: look up GVSPAdjustPacketSize; its status is not stored
Acq_GetPacketSizeFeature ==
    /\ pc = "packetFeature"
    /\ \E st \in Statuses :
         /\ call' = Seen(call, st, "feature", FALSE)
         /\ pc' = IF st = VmbErrorSuccess THEN "runCommand" ELSE "widthFeature"
    /\ UNCHANGED <<ctrlVars, cacheVars, cameraOpen, devVars, res,
                   bIsCommandDone, ret>>

\* line 126-128: run the command; its status is not stored
Acq_RunCommand ==
    /\ pc = "runCommand"
    /\ \E st \in Statuses :
         /\ call' = Seen(call, st, "feature", FALSE)
         /\ pc' = IF st = VmbErrorSuccess THEN "poll" ELSE "widthFeature"
    /\ bIsCommandDone' = FALSE
    /\ UNCHANGED <<ctrlVars, cacheVars, cameraOpen, devVars, res, ret>>

\* Variant: the loop condition is written the wrong way round.
LoopContinues_Inverted(st, done) == st = VmbErrorSuccess /\ done = TRUE

\* line 131-135: the do-while goes round again after a poll that returned st
\* and left the flag at done
LoopContinues(st, done) == st = VmbErrorSuccess /\ done = FALSE

\* line 129-135: one IsCommandDone poll
Acq_IsCommandDone ==
    /\ pc = "poll"
    /\ \E st \in Statuses, answer \in BOOLEAN :
         LET done == IF st = VmbErrorSuccess THEN answer ELSE bIsCommandDone
         IN  /\ bIsCommandDone' = done
             /\ call' = [Seen(call, st, "feature", FALSE) EXCEPT
                            !.pollSt = st,
                            !.nPolls = IF @ < MaxPolls THEN @ + 1 ELSE @]
             /\ pc' = IF LoopContinues(st, done) THEN "poll" ELSE "widthFeature"
    /\ UNCHANGED <<ctrlVars, cacheVars, cameraOpen, devVars, res, ret>>

\* line 140-141: look up Width
Acq_GetWidthFeature ==
    /\ pc = "widthFeature"
    /\ \E st \in Statuses :
         /\ res' = st
         /\ call' = Seen(call, st, "feature", TRUE)
         /\ pc' = After(st, "widthValue")
    /\ UNCHANGED <<ctrlVars, cacheVars, cameraOpen, devVars, bIsCommandDone, ret>>

\* line 143-144: read Width into m_nWidth
Acq_GetWidthValue ==
    /\ pc = "widthValue"
    /\ \E st \in Statuses :
         /\ res' = st
         /\ m_nWidth' = IF st = VmbErrorSuccess THEN devWidth ELSE m_nWidth
         /\ call' = [Seen(call, st, "feature", TRUE)
                        EXCEPT !.wRead = (st = VmbErrorSuccess)]
         /\ pc' = After(st, "heightFeature")
    /\ UNCHANGED <<ctrlVars, m_nHeight, m_nPixelFormat, cameraOpen, devVars,
                   bIsCommandDone, ret>>

\* line 147-148: look up Height
Acq_GetHeightFeature ==
    /\ pc = "heightFeature"
    /\ \E st \in Statuses :
         /\ res' = st
         /\ call' = Seen(call, st, "feature", TRUE)
         /\ pc' = After(st, "heightValue")
    /\ UNCHANGED <<ctrlVars, cacheVars, cameraOpen, devVars, bIsCommandDone, ret>>

\* Variant: the Height is read into m_nWidth.
Acq_GetHeightValue_IntoWidth ==
    /\ pc = "heightValue"
    /\ \E st \in Statuses :
         /\ m_nWidth' = IF st = VmbErrorSuccess THEN devHeight ELSE m_nWidth
         /\ call' = [Seen(call, st, "feature", FALSE)
                        EXCEPT !.hRead = (st = VmbErrorSuccess)]
    /\ pc' = After(res, "pixelFeature")
    /\ UNCHANGED <<ctrlVars, m_nHeight, m_nPixelFormat, cameraOpen, devVars,
                   res, bIsCommandDone, ret>>

\* line 150-151: read Height into m_nHeight; the status is not assigned to
\* res, and the test that follows reads the res of the lookup
Acq_GetHeightValue ==
    /\ pc = "heightValue"
    /\ \E st \in Statuses :
         /\ m_nHeight' = IF st = VmbErrorSuccess THEN devHeight ELSE m_nHeight
         /\ call' = [Seen(call, st, "feature", FALSE)
                        EXCEPT !.hRead = (st = VmbErrorSuccess)]
    /\ pc' = After(res, "pixelFeature")
    /\ UNCHANGED <<ctrlVars, m_nWidth, m_nPixelFormat, cameraOpen, devVars,
                   res, bIsCommandDone, ret>>

\* line 154-155: look up PixelFormat
Acq_GetPixelFormatFeature ==
    /\ pc = "pixelFeature"
    /\ \E st \in Statuses :
         /\ res' = st
         /\ call' = Seen(call, st, "feature", TRUE)
         /\ pc' = After(st, "setRgb")
    /\ UNCHANGED <<ctrlVars, cacheVars, cameraOpen, devVars, bIsCommandDone, ret>>

\* line 158-159: try RGB8; a rejection is replaced by the Mono8 attempt
Acq_SetRgb8 ==
    /\ pc = "setRgb"
    /\ \E st \in Statuses :
         /\ res' = st
         /\ devPixelFormat' = IF st = VmbErrorSuccess
                              THEN I64(0, VmbPixelFormatRgb8) ELSE devPixelFormat
         /\ call' = [Seen(call, st, "feature", st = VmbErrorSuccess)
                        EXCEPT !.rgbSt = st]
         /\ pc' = IF st # VmbErrorSuccess THEN "setMono" ELSE "readBack"
    /\ UNCHANGED <<ctrlVars, cacheVars, cameraOpen, devWidth, devHeight,
                   bIsCommandDone, ret>>

\* line 162: fall back to Mono8
Acq_SetMono8 ==
    /\ pc = "setMono"
    /\ \E st \in Statuses :
         /\ res' = st
         /\ devPixelFormat' = IF st = VmbErrorSuccess
                              THEN I64(0, VmbPixelFormatMono8) ELSE devPixelFormat
         /\ call' = [Seen(call, st, "feature", TRUE) EXCEPT !.monoSt = st]
         /\ pc' = "readBack"
    /\ UNCHANGED <<ctrlVars, cacheVars, cameraOpen, devWidth, devHeight,
                   bIsCommandDone, ret>>

\* line 166-168: read the selected format back into m_nPixelFormat; the
\* status is dropped and the test that follows reads the res of the write
Acq_ReadBack ==
    /\ pc = "readBack"
    /\ \E st \in Statuses :
         /\ m_nPixelFormat' = IF st = VmbErrorSuccess
                              THEN devPixelFormat ELSE m_nPixelFormat
         /\ call' = [Seen(call, st, "readBack", FALSE)
                        EXCEPT !.pRead = (st = VmbErrorSuccess)]
    /\ pc' = After(res, "capture")
    /\ UNCHANGED <<ctrlVars, m_nWidth, m_nHeight, cameraOpen, devVars, res,
                   bIsCommandDone, ret>>

\* Variant: the status of the capture is not assigned to res.
Acq_Capture_Unchecked ==
    /\ pc = "capture"
    /\ \E st \in Statuses : call' = Seen(call, st, "capture", TRUE)
    /\ pc' = "close"
    /\ UNCHANGED <<ctrlVars, cacheVars, cameraOpen, devVars, res,
                   bIsCommandDone, ret>>

\* line 171: the blocking capture with its 2000 ms timeout
Acq_Capture ==
    /\ pc = "capture"
    /\ \E st \in Statuses :
         /\ res' = st
         /\ call' = Seen(call, st, "capture", TRUE)
    /\ pc' = "close"
    /\ UNCHANGED <<ctrlVars, cacheVars, cameraOpen, devVars, bIsCommandDone, ret>>

\* Variant: the camera is closed in case of failure only.
Acq_Close_OnFailureOnly ==
    /\ pc = "close"
    /\ cameraOpen' = IF res # VmbErrorSuccess THEN FALSE ELSE cameraOpen
    /\ call' = [call EXCEPT
                   !.closeCount = IF res # VmbErrorSuccess THEN @ + 1 ELSE @]
    /\ ret' = Returned("AcquireSingleImage", res)
    /\ pc' = "idle"
    /\ UNCHANGED <<ctrlVars, cacheVars, devVars, res, bIsCommandDone>>

\* line 178-181: close the camera and return res
Acq_Close ==
    /\ pc = "close"
    /\ cameraOpen' = FALSE
    /\ call' = [call EXCEPT !.closeCount = @ + 1]
    /\ ret' = Returned("AcquireSingleImage", res)
    /\ pc' = "idle"
    /\ UNCHANGED <<ctrlVars, cacheVars, devVars, res, bIsCommandDone>>

\* The steps of a call that is in progress.
AcquireStep ==
    \/ Acq_GetPacketSizeFeature
    \/ Acq_RunCommand
    \/ Acq_IsCommandDone
    \/ Acq_GetWidthFeature
    \/ Acq_GetWidthValue
    \/ Acq_GetHeightFeature
    \/ Acq_GetHeightValue
    \/ Acq_GetPixelFormatFeature
    \/ Acq_SetRgb8
    \/ Acq_SetMono8
    \/ Acq_ReadBack
    \/ Acq_Capture
    \/ Acq_Close

Next ==
    \/ StartUp
    \/ ShutDown
    \/ GetCameraList
    \/ \E id \in RequestIds : Acq_Open(id)
    \/ AcquireStep

Spec == Init /\ [][Next]_vars

\* The caller's thread keeps running the call it is in, and some poll of the
\* packet-size command eventually reports done or fails.
Progress == AcquireStep /\ pc' # pc
FairSpec == Spec /\ WF_vars(Progress)

\* ------------------------------------------------------------------ claims
\* AcquireSingleImage is the operation that returned last.
AcqReturned == pc = "idle" /\ ret.op = "AcquireSingleImage"
AcqResult == ret.value
RGB8 == VmbPixelFormatRgb8
Mono8 == VmbPixelFormatMono8

\* C1 as stated: every call that has returned closed the camera exactly
\* once, whichever step failed, the open included.
C1_CloseOnceEvenIfOpenFails ==
    AcqReturned => call.closeCount = 1

\* C1 amended: a call whose open succeeded closes the camera exactly once
\* before it returns, whichever later step failed and also when none did; a
\* call whose open failed makes no Close call; no Close happens before the
\* last step of the call.
C1_CloseOncePerOpenedCall ==
    /\ call.closeCount <= 1
    /\ (pc # "idle" => call.closeCount = 0)
    /\ (AcqReturned =>
          call.closeCount = IF call.openSt = VmbErrorSuccess THEN 1 ELSE 0)

C1_Witness ==
    /\ AcqReturned
    /\ call.openSt = VmbErrorSuccess
    /\ AcqResult \in Errs
    /\ call.closeCount = 1

\* C2 as stated: the call returns the first non-success status any SDK call
\* of the invocation produced (success if there was none), and no feature
\* call or capture follows that first failure.
C2_FirstFailureOfAnyCall ==
    AcqReturned => (AcqResult = call.firstFail /\ ~call.afterFail)

\* C2 amended: the call returns the first non-success status among the calls
\* whose status it stores and tests (open, Width lookup, Width read, Height
\* lookup, PixelFormat lookup, the Mono8 write, the capture; the RGB8 write
\* when accepted), and success if none of them failed; after such a failure
\* the only further feature call is the PixelFormat read-back that follows a
\* rejected Mono8 write.  The statuses of the packet-size lookup, command and
\* polls, of the Height read, of a rejected RGB8 write and of the read-back
\* are not returned and do not stop the sequence.
C2_FirstStoredFailure ==
    /\ ~call.afterKept
    /\ (AcqReturned => AcqResult = call.keptFail)

C2_Witness ==
    /\ AcqReturned
    /\ call.firstFail \in Errs
    /\ call.keptFail \in Errs
    /\ call.firstFail # call.keptFail
    /\ AcqResult = call.keptFail
    /\ call.afterFail

\* C3 as stated: after a call that returned success GetWidth and GetHeight
\* equal the Width and Height the device holds during that call.
C3_CachedSizeIsDeviceSize ==
    (AcqReturned /\ AcqResult = VmbErrorSuccess) =>
        /\ I64(0, GetWidth) = devWidth
        /\ I64(0, GetHeight) = devHeight

\* C4 as stated: after a call that returned success GetPixelFormat is RGB8
\* or Mono8, whatever the read-back answered.
C4_CachedFormatIsRgbOrMono ==
    (AcqReturned /\ AcqResult = VmbErrorSuccess) =>
        GetPixelFormat \in {RGB8, Mono8}

\* C5: when the open fails no feature call and no capture is made, the call
\* returns exactly the status of the open, and no camera is left open.
C5_OpenFailure ==
    (AcqReturned /\ call.openSt # VmbErrorSuccess) =>
        /\ ~call.featCalled
        /\ ~call.captureCalled
        /\ AcqResult = call.openSt
        /\ ~cameraOpen

C5_Witness ==
    /\ AcqReturned
    /\ sysStarted
    /\ call.id \in CameraIds
    /\ call.openSt \in Errs
    /\ AcqResult = call.openSt

\* C6 as stated: RGB8 is written first and Mono8 is written if and only if
\* RGB8 was rejected; when RGB8 is rejected and Mono8 accepted the capture is
\* issued and the cached format is Mono8; when RGB8 is accepted the cached
\* format is RGB8 and Mono8 is never written.
C6_FormatFallback ==
    /\ (call.monoSt # "none" => call.rgbSt \in Errs)
    /\ ((call.rgbSt \in Errs /\ pc # "setMono") => call.monoSt # "none")
    /\ ((AcqReturned /\ call.rgbSt \in Errs /\ call.monoSt = VmbErrorSuccess) =>
          (call.captureCalled /\ GetPixelFormat = Mono8))
    /\ ((AcqReturned /\ call.rgbSt = VmbErrorSuccess) =>
          (GetPixelFormat = RGB8 /\ call.monoSt = "none"))

C8_FailedCallKeepsCache ==
    (AcqReturned /\ AcqResult # VmbErrorSuccess) =>
        /\ GetWidth = call.preW
        /\ GetHeight = call.preH
        /\ GetPixelFormat = call.preP

\* C8 amended: each accessor returns the value most recently read from the
\* device with success, by whichever call read it and whatever that call
\* returned: a call sets GetWidth (GetHeight, GetPixelFormat) to the value
\* the device holds as soon as its read of Width (of Height, the read-back of
\* PixelFormat) succeeds, and leaves it unchanged if that read fails or is
\* not reached.  A call that fails at the open, the Width lookup or the
\* Width read changes none of the three.
C8_CacheFollowsReads ==
    call.made =>
        /\ GetWidth = IF call.wRead THEN CastInt(devWidth) ELSE call.preW
        /\ GetHeight = IF call.hRead THEN CastInt(devHeight) ELSE call.preH
        /\ GetPixelFormat =
              IF call.pRead THEN CastInt(devPixelFormat) ELSE call.preP
        /\ (call.hRead \/ call.pRead => call.wRead)

C8_Witness ==
    /\ AcqReturned
    /\ AcqResult \in Errs
    /\ call.wRead
    /\ GetWidth # call.preW

\* C9: the polling loop is left only by a poll that fails or reports the
\* command done; while the call polls the camera is open, no capture has
\* been issued, no Close has been made and one more not-done poll is always
\* possible (no iteration cap); if some poll eventually reports done or
\* fails, every call returns.
C9_PollingLoop ==
    /\ [](pc = "poll" =>
            /\ cameraOpen
            /\ ~call.captureCalled
            /\ call.closeCount = 0
            /\ ENABLED (Acq_IsCommandDone /\ pc' = "poll"))
    /\ [][(pc = "poll" /\ pc' # "poll") =>
            (call'.pollSt \in Errs \/ bIsCommandDone')]_vars
    /\ ((pc # "idle") ~> (pc = "idle"))

C9_Witness ==
    /\ pc = "poll"
    /\ call.nPolls = MaxPolls
    /\ call.pollSt = VmbErrorSuccess
    /\ ~bIsCommandDone

\* C10: no feature call and no capture runs on a closed camera; the camera
\* is open exactly while a call is between its successful open and its
\* Close, and closed whenever no call is in progress.
C10_CallsOnlyWhileOpen ==
    /\ ~call.outside
    /\ (call.featCalled \/ call.captureCalled => call.openSt = VmbErrorSuccess)
    /\ cameraOpen = (pc # "idle")

C10_Witness ==
    /\ pc = "close"
    /\ cameraOpen
    /\ call.captureCalled
    /\ ~call.outside

====
